---- MODULE Spec2Model ----
(***************************************************************************)
(* A state-machine model of pyfao56.tools.soil_water.SoilWater and of      *)
(* pyfao56.tools.stats.Statistics.                                         *)
(*                                                                         *)
(* Representation                                                          *)
(*   float        a cell [k, s, e, h, l]: k = "num" is the binary64 number *)
(*                s * (h * 2^27 + l) * 2^e with the sign s = 1 or -1 (a    *)
(*                zero has h = l = 0 and keeps its sign), k = "nan" is     *)
(*                NaN, k = "inf" is the infinity of sign s, k = "str" is a *)
(*                string of digits whose integer value is l (the Year and  *)
(*                DOY columns of rzdata).                                  *)
(*   date string  'YYYY-DDD' is the integer YYYY*1000 + DDD.               *)
(*   DataFrame    [none, idx, cols, val]: none = TRUE is Python's None;    *)
(*                idx and cols are the row and column labels in order;     *)
(*                val[r][c] is the cell at row r, column c.                *)
(*   text file    a sequence of lines, each line its whitespace-separated  *)
(*                tokens [t, v]: t = "int" an integer literal v, "f3" a    *)
(*                fixed-point literal with three decimals (v thousandths), *)
(*                "negzero" the literal -0.000, "nan" the text NaN, "inf"  *)
(*                the text inf (v = 1) or -inf (v = -1), "date" a date     *)
(*                string, "word" other.                                    *)
(***************************************************************************)
EXTENDS Integers, Sequences, FiniteSets, TLC

VARIABLES mdl, files, swcdata, swddata, rzdata, phase, call, err, out, ncalls,
          stats, first

vars == <<mdl, files, swcdata, swddata, rzdata, phase, call, err, out, ncalls,
          stats, first>>

(***************************************************************************)
(* Program constants.                                                      *)
(***************************************************************************)
\* rmax = Zrmax * 100000: depth increments per metre
IncPerM == 100000
\* inc <= dpth * 1000: depth increments per centimetre of layer depth
IncPerCm == 1000
\* swddata.loc[lyr, mykey] / 100: millimetres of water per increment
PerInc == 100
\* '{:8.3f}', '{:7.3f}', '{:6.3f}', '{:5.3f}': decimals written to a file
Decimals == 3

(***************************************************************************)
(* Bounds of the model.                                                    *)
(***************************************************************************)
\* calls made on one object after its construction
MaxCalls == 2
\* file paths passed to the constructor
MaxArgs == 2

(***************************************************************************)
(* Floats.  A Python float and a numpy float64 are IEEE-754 binary64       *)
(* numbers: a sign, a 53-bit mantissa and a power of two.  The mantissa is *)
(* kept in two limbs, h * Limb + l, so that every intermediate fits a      *)
(* 32-bit integer.  Each operation computes its exact result in three      *)
(* limbs and rounds it once to the nearest float, ties to the even         *)
(* mantissa.  The exponents of the model's values stay far from the limits *)
(* of the format, so overflow and subnormal numbers are not modelled.      *)
(***************************************************************************)
\* the one element of a singleton set; applying an operator to each element
\* of {e} evaluates e before the operator is entered
Only(S) == CHOOSE v \in S : TRUE

\* a literal with three decimals counts thousandths
Milli == 10 ^ Decimals

\* the low limb holds 27 bits of the mantissa, the high limb the 26 above
\* them; the top bit of a mantissa is the bit MinTop of the high limb
Limb == 2 ^ 27
HalfLimb == 2 ^ 26
MinTop == 2 ^ 25

\* the float s * (h * Limb + l) * 2^e; h = l = 0 is a zero, otherwise
\* MinTop <= h < HalfLimb
Float(s, e, h, l) == [k |-> "num", s |-> s, e |-> e, h |-> h, l |-> l]
NaN == [k |-> "nan", s |-> 1, e |-> 0, h |-> 0, l |-> 0]
PosInf == [k |-> "inf", s |-> 1, e |-> 0, h |-> 0, l |-> 0]
NegInf == [k |-> "inf", s |-> -1, e |-> 0, h |-> 0, l |-> 0]
Str(n) == [k |-> "str", s |-> 1, e |-> 0, h |-> 0, l |-> n]
Zero == Float(1, 0, 0, 0)
NegZero == Float(-1, 0, 0, 0)
One == Float(1, -52, MinTop, 0)

IsNum(x) == x.k = "num"

\* an exact intermediate: s * (a * Limb^2 + b * Limb + c) * 2^e, and more
\* than that by less than one unit of c when st (sticky) is TRUE
Wide(s, e, a, b, c, st) == [s |-> s, e |-> e, a |-> a, b |-> b, c |-> c, st |-> st]

\* the number of bits of n
RECURSIVE BitLen(_)
BitLen(n) == IF n = 0 THEN 0 ELSE 1 + BitLen(n \div 2)

\* the limbs of w moved k < 27 bits to the left
ShiftLeft(w, k) ==
    LET up == 2 ^ k
        down == 2 ^ (27 - k)
    IN Wide(w.s, w.e - k, w.a * up + w.b \div down,
            (w.b % down) * up + w.c \div down,
            (w.c % down) * up, w.st)

\* w with its leading bit moved to the top bit of a 26-bit limb a
RECURSIVE Normal(_)
Normal(w) ==
    IF w.a >= HalfLimb
    THEN Wide(w.s, w.e + 1, w.a \div 2,
              w.b \div 2 + (w.a % 2) * HalfLimb,
              w.c \div 2 + (w.b % 2) * HalfLimb,
              w.st \/ (w.c % 2) = 1)
    ELSE IF w.a = 0 THEN Normal(Wide(w.s, w.e - 27, w.b, w.c, 0, w.st))
    ELSE IF w.a >= MinTop THEN w
    ELSE ShiftLeft(w, 26 - BitLen(w.a))

\* the part below the last kept bit, c of Limb (and more when st), rounds
\* the kept part up: it is above one half, or is one half and the kept part
\* is odd
RoundsUp(c, st, odd) == c > HalfLimb \/ (c = HalfLimb /\ (st \/ odd))

\* the float nearest the exact value w, whose leading bit is the top bit of
\* its limb a: the limbs a and b, one more when c rounds up
RoundNormal(w) ==
    IF ~RoundsUp(w.c, w.st, (w.b % 2) = 1) THEN Float(w.s, w.e + 27, w.a, w.b)
    ELSE IF w.b + 1 < Limb THEN Float(w.s, w.e + 27, w.a, w.b + 1)
    ELSE IF w.a + 1 < HalfLimb THEN Float(w.s, w.e + 27, w.a + 1, 0)
    ELSE Float(w.s, w.e + 28, MinTop, 0)

\* the float nearest the exact value w
RoundNearest(w) ==
    IF w.a = 0 /\ w.b = 0 /\ w.c = 0 THEN Float(w.s, 0, 0, 0)
    ELSE RoundNormal(Normal(w))

\* the limbs of w moved d bits to the right; st tells that bits were lost
RECURSIVE ShiftRight(_, _)
ShiftRight(w, d) ==
    IF d = 0 \/ (w.a = 0 /\ w.b = 0 /\ w.c = 0) THEN w
    ELSE IF d >= 27
         THEN ShiftRight(Wide(w.s, w.e, 0, w.a, w.b, w.st \/ w.c # 0), d - 27)
    ELSE LET two == 2 ^ d
             inv == 2 ^ (27 - d)
         IN Wide(w.s, w.e, w.a \div two,
                 w.b \div two + (w.a % two) * inv,
                 w.c \div two + (w.b % two) * inv,
                 w.st \/ (w.c % two) # 0)

\* |x| < |y| for two finite floats
MagLess(x, y) ==
    IF y.h = 0 THEN FALSE
    ELSE IF x.h = 0 THEN TRUE
    ELSE x.e < y.e \/ (x.e = y.e /\ (x.h < y.h \/ (x.h = y.h /\ x.l < y.l)))

\* the exact sum of the float p and of t, the smaller float brought to the
\* exponent of p
AddShifted(p, t) ==
    IF p.s = t.s
    THEN LET b == p.l + t.b
         IN Wide(p.s, p.e - 27, p.h + t.a + b \div Limb, (b % Limb), t.c, t.st)
    ELSE LET c == 0 - t.c - (IF t.st THEN 1 ELSE 0)
             b == p.l - t.b - (IF c < 0 THEN 1 ELSE 0)
             a == p.h - t.a - (IF b < 0 THEN 1 ELSE 0)
         IN Wide(IF a = 0 /\ b = 0 /\ c = 0 THEN 1 ELSE p.s,
                 p.e - 27, a, (b % Limb), (c % Limb), t.st)

\* p + q for two finite floats, neither zero, |p| >= |q|
AddOrdered(p, q) ==
    RoundNearest(AddShifted(p, ShiftRight(Wide(q.s, 0, q.h, q.l, 0, FALSE), p.e - q.e)))

\* x + y
FAdd(x, y) ==
    IF x.k = "nan" \/ y.k = "nan" THEN NaN
    ELSE IF x.k = "inf" THEN IF y.k = "inf" /\ y.s # x.s THEN NaN ELSE x
    ELSE IF y.k = "inf" THEN y
    ELSE IF x.h = 0 /\ y.h = 0 THEN IF x.s = y.s THEN x ELSE Zero
    ELSE IF y.h = 0 THEN x
    ELSE IF x.h = 0 THEN y
    ELSE AddOrdered(IF MagLess(x, y) THEN y ELSE x, IF MagLess(x, y) THEN x ELSE y)

\* -x
FNeg(x) == IF x.k = "nan" THEN x ELSE [x EXCEPT !.s = -x.s]

\* x - y
FSub(x, y) == FAdd(x, FNeg(y))

\* one limb of a division by d <= 100000: the quotient and the remainder of
\* r * Limb + limb, for a remainder r < d carried from the limb above
DivLimb(r, limb, d) ==
    LET n1 == r * 2 ^ 13 + limb \div 2 ^ 14
        n2 == (n1 % d) * 2 ^ 14 + (limb % (2 ^ 14))
    IN [q |-> (n1 \div d) * 2 ^ 14 + n2 \div d, r |-> (n2 % d)]

\* x / d for a whole number 0 < d <= 100000
FDivBy(x, d) ==
    IF x.k # "num" \/ x.h = 0 THEN x
    ELSE LET qa == DivLimb(0, x.h, d)
             qb == DivLimb(qa.r, x.l, d)
             qc == DivLimb(qb.r, 0, d)
         IN RoundNearest(Wide(x.s, x.e - 27, qa.q, qb.q, qc.q, qc.r # 0))

\* one limb of a product by m <= 100000: the limb of limb * m + carry and
\* the carry to the limb above
MulLimb(limb, m, carry) ==
    LET p0 == (limb % (2 ^ 14)) * m + carry
        p1 == (limb \div 2 ^ 14) * m + p0 \div 2 ^ 14
    IN [l |-> (p1 % (2 ^ 13)) * 2 ^ 14 + (p0 % (2 ^ 14)), carry |-> p1 \div 2 ^ 13]

\* the exact product x * m of a finite float and a whole number
\* 0 < m <= 100000
TimesExact(x, m) ==
    LET pl == MulLimb(x.l, m, 0)
        ph == MulLimb(x.h, m, pl.carry)
    IN Wide(x.s, x.e, ph.carry, ph.l, pl.l, FALSE)

\* x * m for a whole number 0 < m <= 100000
FTimes(x, m) ==
    IF x.k # "num" \/ x.h = 0 THEN x ELSE RoundNearest(TimesExact(x, m))

\* x / 100
FDivPerInc(x) == FDivBy(x, PerInc)

\* float(n) for a whole number n
FromInt(n) ==
    IF n < 0 THEN RoundNearest(Wide(-1, 0, 0, (-n) \div Limb, ((-n) % Limb), FALSE))
    ELSE RoundNearest(Wide(1, 0, 0, n \div Limb, (n % Limb), FALSE))

\* the float a decimal literal denotes: the float nearest n / d, for
\* d = 10^j <= 100000; a literal '-0.000' denotes -0.0
Dec(n, d) == FDivBy(FromInt(n), d)

\* n bits of the quotient of the two-limb numbers r / y, the first bit
\* telling whether r >= y, and the remainder brought to the place of the
\* next bit; r < 2 * y
RECURSIVE DivBits(_, _, _, _, _, _)
DivBits(rh, rl, yh, yl, n, q) ==
    IF n = 0 THEN [q |-> q, h |-> rh, l |-> rl]
    ELSE LET ge == rh > yh \/ (rh = yh /\ rl >= yl)
             l0 == IF ge THEN rl - yl ELSE rl
             h0 == IF ge THEN rh - yh - (IF l0 < 0 THEN 1 ELSE 0) ELSE rh
             l1 == (l0 % Limb)
         IN DivBits(2 * h0 + l1 \div HalfLimb, 2 * (l1 % HalfLimb), yh, yl, n - 1,
                    2 * q + (IF ge THEN 1 ELSE 0))

\* numpy float64 division x / y: a zero divisor gives an infinity or NaN
\* (with a warning), never an exception
FDiv(x, y) ==
    IF x.k = "nan" \/ y.k = "nan" THEN NaN
    ELSE IF x.k = "inf"
         THEN IF y.k = "inf" THEN NaN ELSE IF x.s = y.s THEN PosInf ELSE NegInf
    ELSE IF y.k = "inf" THEN Float(x.s * y.s, 0, 0, 0)
    ELSE IF y.h = 0
         THEN IF x.h = 0 THEN NaN ELSE IF x.s = y.s THEN PosInf ELSE NegInf
    ELSE IF x.h = 0 THEN Float(x.s * y.s, 0, 0, 0)
    ELSE LET qa == DivBits(x.h, x.l, y.h, y.l, 27, 0)
             qb == DivBits(qa.h, qa.l, y.h, y.l, 27, 0)
             qc == DivBits(qb.h, qb.l, y.h, y.l, 2, 0)
         IN RoundNearest(Wide(x.s * y.s, x.e - y.e - 80, qa.q, qb.q, qc.q * MinTop,
                              qc.h # 0 \/ qc.l # 0))

\* x < y as Python evaluates it: every comparison with NaN is False
FLess(x, y) ==
    IF x.k = "nan" \/ y.k = "nan" THEN FALSE
    ELSE IF x.k = "inf" THEN x.s = -1 /\ ~(y.k = "inf" /\ y.s = -1)
    ELSE IF y.k = "inf" THEN y.s = 1
    ELSE IF x.h = 0 /\ y.h = 0 THEN FALSE
    ELSE IF x.s # y.s THEN x.s = -1
    ELSE IF x.s = 1 THEN MagLess(x, y) ELSE MagLess(y, x)

\* int(x) for a finite float below 2^31 in magnitude: the whole part
Trunc(x) ==
    IF x.h = 0 \/ x.e < -52 THEN 0
    ELSE IF x.e <= -27 THEN x.s * (x.h \div 2 ^ (-27 - x.e))
    ELSE x.s * (x.h * 2 ^ (27 + x.e) + x.l \div 2 ^ (-x.e))

\* the whole number nearest t, ties to even, for t brought to the exponent
\* -54: its limbs a and b count units, its limb c the part below one unit
RoundWhole(t) ==
    LET n == t.a * Limb + t.b
    IN IF RoundsUp(t.c, t.st, (n % 2) = 1) THEN n + 1 ELSE n

\* |x| * 1000 rounded to the nearest whole number, ties to even, for a
\* finite float below 2^26 in magnitude: the digits that '{:.3f}' writes
Round3(x) ==
    IF x.h = 0 THEN 0
    ELSE RoundWhole(ShiftRight(TimesExact(x, Milli), -27 - x.e))

NoStride == [ok |-> FALSE, h |-> 0, l |-> 0]

\* the units of x's last bit that one addition of t adds: t, brought to the
\* exponent of x, rounded to whole units
Units(t) ==
    LET up == IF RoundsUp(t.c, t.st, FALSE) THEN 1 ELSE 0
    IN Float(t.s, 0, t.a + (t.b + up) \div Limb, ((t.b + up) % Limb))

\* the mantissa of x and p units more
StrideSum(x, p) ==
    LET l == x.l + p.c
        h == x.h + p.b + l \div Limb
    IN [ok |-> p.a = 0 /\ h < HalfLimb, h |-> h, l |-> (l % Limb)]

\* Stride for d brought to the exponent of x
StrideOf(x, t, n) ==
    IF t.c = HalfLimb /\ ~t.st THEN NoStride
    ELSE StrideSum(x, TimesExact(Units(t), n))

\* n additions of d to x at once, when each of them only adds the same
\* whole number of units of x's last bit: x and d have one sign, d shifted to
\* the exponent of x is not halfway between two units, and the sum stays
\* below the next power of two.  ok tells whether that is so; h and l are
\* the limbs of the sum.  n <= 100000
Stride(x, d, n) ==
    IF x.h = 0 \/ x.s # d.s \/ x.e < d.e \/ n > 100000 THEN NoStride
    ELSE StrideOf(x, ShiftRight(Wide(d.s, 0, d.h, d.l, 0, FALSE), x.e - d.e), n)

\* x after n executions of x += d: the additions one by one, a stretch of
\* them at once where Stride allows it
RECURSIVE AddRun(_, _, _)
AddRun(x, d, n) ==
    IF n = 0 THEN x
    ELSE IF n = 1 \/ x.k # "num" \/ d.k # "num" \/ d.h = 0 THEN FAdd(x, d)
    ELSE Only({IF w.ok THEN Float(x.s, x.e, w.h, w.l)
               ELSE Only({AddRun(half, d, n - n \div 2) :
                            half \in {AddRun(x, d, n \div 2)}}) :
               w \in {Stride(x, d, n)}})

\* ClipLower0 without the clip: the difference as it is
ClipLower0Mut(x) == x

\* Series.clip(lower=0): a value below 0 becomes 0.0, NaN stays NaN
ClipLower0(x) ==
    IF FLess(x, Zero) THEN Zero ELSE x

\* sorted([0.0, x, 1.0])[1]: list.sort finds the run [0.0, x] descending when
\* x < 0.0 and then inserts 1.0 after it; otherwise the run ends before 1.0
\* when 1.0 < x and 1.0 is inserted before x; otherwise the list is left as
\* it is, which is also what happens when x is NaN
Median01(x) ==
    IF FLess(x, Zero) THEN Zero
    ELSE IF FLess(One, x) THEN One
    ELSE x

(***************************************************************************)
(* Tokens of a text file.                                                  *)
(***************************************************************************)
TInt(v) == [t |-> "int", v |-> v]
TF3(v) == [t |-> "f3", v |-> v]
TNaN == [t |-> "nan", v |-> 0]
\* the text '-0.000'
TNegZero == [t |-> "negzero", v |-> 0]
\* the texts 'inf' (v = 1) and '-inf' (v = -1)
TInf(v) == [t |-> "inf", v |-> v]
TDate(v) == [t |-> "date", v |-> v]
TWord == [t |-> "word", v |-> 0]

\* int(token) succeeds on an integer literal only
IntOk(tok) == tok.t = "int"
\* float(token) succeeds on an integer or decimal literal and on 'NaN',
\* 'inf' and '-inf'
FloatOk(tok) == tok.t \in {"int", "f3", "negzero", "nan", "inf"}
\* float(token)
ParseFloat(tok) ==
    IF tok.t = "nan" THEN NaN
    ELSE IF tok.t = "inf" THEN IF tok.v > 0 THEN PosInf ELSE NegInf
    ELSE IF tok.t = "negzero" THEN NegZero
    ELSE IF tok.t = "int" THEN FromInt(tok.v)
    ELSE Dec(tok.v, Milli)

\* the text of a number of sign s whose digits, in thousandths, are n
FmtDigits(s, n) ==
    IF s = -1 /\ n = 0 THEN TNegZero ELSE TF3(s * n)

\* '{:8.3f}'.format(x), with na_rep for a missing value: the sign is written
\* also when the digits are all zero
FmtFloat(x) ==
    IF x.k = "nan" THEN TNaN
    ELSE IF x.k = "inf" THEN TInf(x.s)
    ELSE FmtDigits(x.s, Round3(x))

(***************************************************************************)
(* DataFrames.                                                             *)
(***************************************************************************)
Range(s) == {s[i] : i \in 1..Len(s)}

NoneDF == [none |-> TRUE, idx |-> <<>>, cols |-> <<>>, val |-> <<>>]
DF(idx, cols, val) == [none |-> FALSE, idx |-> idx, cols |-> cols, val |-> val]
\* pd.DataFrame(columns=cols)
EmptyDF(cols) == DF(<<>>, cols, <<>>)

\* df.loc[key] = row: the exception raised, or "none".  pandas refuses to
\* append a row to a frame without columns ('cannot set a frame with no
\* defined columns')
SetRowErr(df, key) ==
    IF Len(df.cols) = 0 /\ key \notin Range(df.idx) THEN "ValueError" ELSE "none"

\* df.loc[key] = row: overwrites the row labelled key, or appends it; the
\* frame is left as it was when the assignment raises
SetRow(df, key, row) ==
    IF SetRowErr(df, key) # "none" THEN df
    ELSE LET idx == IF key \in Range(df.idx) THEN df.idx ELSE Append(df.idx, key)
         IN DF(idx, df.cols,
               [r \in Range(idx) |-> IF r = key THEN row ELSE df.val[r]])

\* DataFrame.empty: no rows or no columns
IsEmptyDF(df) == Len(df.idx) = 0 \/ Len(df.cols) = 0

\* rz_cnames, and the columns loadfile gives a root-zone table
rz_cnames == <<"Year", "DOY", "Zr", "SWDr", "SWDrmax", "SWCr", "SWCrmax", "MeasKs">>
rz_loaded_cnames == <<"Zr", "SWDr", "SWDrmax", "SWCr", "SWCrmax", "MeasKs">>

\* 'YYYY-DDD'.split('-') and '{:04d}-{:03d}'.format(year, doy)
DateYear(date) == date \div 1000
DateDoy(date) == date % 1000
DateKey(year, doy) == year * 1000 + doy

(***************************************************************************)
(* __str__: the text written for each table.                               *)
(***************************************************************************)
\* the three lines of title block before the column header, and its rule
TitleBlock == << <<TWord>>, <<TWord, TWord>>, <<TWord, TWord, TWord>>, <<TWord>> >>

\* DataFrame.to_string of an empty frame: 'Empty DataFrame', 'Columns: [..]',
\* 'Index: [..]'
EmptyInfoLines == << <<TWord, TWord>>, <<TWord, TWord>>, <<TWord, TWord>> >>

\* __str__(method='vswc') and __str__(method='vswd') of a table that is not
\* None: title block, 'Depth' and the date columns, one line per layer
StrLayered(df) ==
    TitleBlock
    \o << <<TWord>> \o [j \in 1..Len(df.cols) |-> TDate(df.cols[j])] >>
    \o (IF IsEmptyDF(df) THEN EmptyInfoLines
        ELSE [i \in 1..Len(df.idx) |->
                <<TInt(df.idx[i])>>
                \o [j \in 1..Len(df.cols) |-> FmtFloat(df.val[df.idx[i]][df.cols[j]])]])

\* one cell of a root-zone row under its formatter: '{:4s}' and '{:3s}' write
\* the Year and DOY strings, the others write three decimals
FmtRzCell(x) ==
    IF x.k = "str" THEN TInt(x.l) ELSE FmtFloat(x)

\* __str__(method='rzsw') of a table that is not None: to_string(index=False)
\* writes the columns the table has, in their order
StrRz(df) ==
    TitleBlock
    \o << [j \in 1..Len(rz_cnames) |-> TWord] >>
    \o (IF IsEmptyDF(df) THEN EmptyInfoLines
        ELSE [i \in 1..Len(df.idx) |->
                [j \in 1..Len(df.cols) |-> FmtRzCell(df.val[df.idx[i]][df.cols[j]])]])

(***************************************************************************)
(* loadfile: parsing the lines of a file.                                  *)
(***************************************************************************)
\* the first position in lo..hi of line whose token is missing or is no
\* float literal, 0 when there is none
FirstBadFloat(line, lo, hi) ==
    LET bad == {i \in lo..hi : i > Len(line) \/ ~FloatOk(line[i])}
    IN IF bad = {} THEN 0 ELSE CHOOSE i \in bad : \A j \in bad : i <= j

\* for line in lines[5:] of a content or deficit file, from line i on: the
\* table built so far and the exception that stopped the loop
RECURSIVE LoadLayeredRows(_, _, _)
LoadLayeredRows(lines, i, df) ==
    IF i > Len(lines) THEN [df |-> df, err |-> "none"]
    ELSE LET line == lines[i]
             n == Len(df.cols)
             bad == FirstBadFloat(line, 2, n + 1)
         IN IF Len(line) = 0 THEN [df |-> df, err |-> "IndexError"]
            ELSE IF ~IntOk(line[1]) THEN [df |-> df, err |-> "ValueError"]
            ELSE IF bad # 0
                 THEN [df |-> df,
                       err |-> IF bad > Len(line) THEN "IndexError" ELSE "ValueError"]
            ELSE IF SetRowErr(df, line[1].v) # "none"
                 THEN [df |-> df, err |-> SetRowErr(df, line[1].v)]
            ELSE LoadLayeredRows(lines, i + 1,
                    SetRow(df, line[1].v,
                           [c \in Range(df.cols) |->
                              LET j == CHOOSE j \in 1..n : df.cols[j] = c
                              IN ParseFloat(line[j + 1])]))

\* the body of loadfile for swc_path or swd_path once the file is open:
\* cols = lines[4].strip().split()[1:], then the rows; old is the table held
\* before, kept when lines[4] does not exist
LoadLayered(lines, old) ==
    IF Len(lines) < 5 THEN [df |-> old, err |-> "IndexError"]
    ELSE LET hdr == lines[5]
             cols == [j \in 1..(IF Len(hdr) = 0 THEN 0 ELSE Len(hdr) - 1) |-> hdr[j + 1].v]
         IN LoadLayeredRows(lines, 6, EmptyDF(cols))

\* for line in lines[5:] of a root-zone file, from line i on
RECURSIVE LoadRzRows(_, _, _)
LoadRzRows(lines, i, df) ==
    IF i > Len(lines) THEN [df |-> df, err |-> "none"]
    ELSE LET line == lines[i]
             bad == FirstBadFloat(line, 3, 8)
         IN IF Len(line) < 2 THEN [df |-> df, err |-> "IndexError"]
            ELSE IF ~IntOk(line[1]) \/ ~IntOk(line[2])
                 THEN [df |-> df, err |-> "ValueError"]
            ELSE IF bad # 0
                 THEN [df |-> df,
                       err |-> IF bad > Len(line) THEN "IndexError" ELSE "ValueError"]
            ELSE IF SetRowErr(df, DateKey(line[1].v, line[2].v)) # "none"
                 THEN [df |-> df, err |-> SetRowErr(df, DateKey(line[1].v, line[2].v))]
            ELSE LoadRzRows(lines, i + 1,
                    SetRow(df, DateKey(line[1].v, line[2].v),
                           [c \in Range(rz_loaded_cnames) |->
                              LET j == CHOOSE j \in 1..6 : rz_loaded_cnames[j] = c
                              IN ParseFloat(line[j + 2])]))

\* the body of loadfile for rzsw_path once the file is open
LoadRz(lines) == LoadRzRows(lines, 6, EmptyDF(rz_loaded_cnames))

(***************************************************************************)
(* compute_swd_from_swc.                                                   *)
(***************************************************************************)
\* the outcome of a call: the three tables, the exception that left the
\* call ("none" when it returned) and the messages it printed
Outcome(swc, swd, rz, e, o) ==
    [swc |-> swc, swd |-> swd, rz |-> rz, err |-> e, out |-> o]

\* ThetaFCOf that takes the scalar parameter for every layer, whether or not
\* the model has a soil profile
ThetaFCOfMut(m, l) == m.thetaFC

\* swddata['thetaFC'] for the row labelled l: the scalar parameter repeated
\* when the model has no soil profile, else the profile's column aligned on
\* the index (NaN for a layer the profile does not have)
ThetaFCOf(m, l) ==
    IF m.sol.none THEN m.thetaFC
    ELSE IF l \in Range(m.sol.idx) THEN m.sol.val[l]["thetaFC"]
    ELSE NaN

\* the index of swddata once the thetaFC column is set: a frame without rows
\* takes the index of a non-empty Series assigned to it
IndexWithThetaFC(m, swc) ==
    IF ~m.sol.none /\ Len(swc.idx) = 0 /\ Len(m.sol.idx) > 0
    THEN m.sol.idx ELSE swc.idx

\* (swddata['thetaFC'] - swddata[cname]).clip(lower=0) at row l; a row the
\* content table does not have holds NaN
DeficitCell(m, swc, l, c) ==
    IF l \in Range(swc.idx)
    THEN ClipLower0(FSub(ThetaFCOf(m, l), swc.val[l][c]))
    ELSE ClipLower0(FSub(ThetaFCOf(m, l), NaN))

\* the table compute_swd_from_swc writes to self.swddata
DerivedSWD(m, swc) ==
    LET idx == IndexWithThetaFC(m, swc)
    IN DF(idx, swc.cols,
          [l \in Range(idx) |-> [c \in Range(swc.cols) |-> DeficitCell(m, swc, l, c)]])

\* ComputeSwdFromSwc that takes the deficit table, when there is one, as the
\* base dataframe instead of the content table
ComputeSwdFromSwcMut(m, swc, swd, rz) ==
    IF swc.none THEN Outcome(swc, swd, rz, "AttributeError", <<>>)
    ELSE IF ~m.given THEN Outcome(swc, swd, rz, "none", <<"provide a model">>)
    ELSE Outcome(swc, DerivedSWD(m, IF swd.none THEN swc ELSE swd), rz, "none", <<>>)

\* compute_swd_from_swc(self)
ComputeSwdFromSwc(m, swc, swd, rz) ==
    IF swc.none THEN Outcome(swc, swd, rz, "AttributeError", <<>>)
    ELSE IF ~m.given THEN Outcome(swc, swd, rz, "none", <<"provide a model">>)
    ELSE Outcome(swc, DerivedSWD(m, swc), rz, "none", <<>>)

(***************************************************************************)
(* compute_root_zone_sw.                                                   *)
(***************************************************************************)
\* the last increment at or above the depth x * 100000, for a depth >= 0.
\* inc <= Zr compares the whole number inc with the float Zr = x * 100000
ToInc(x) == Trunc(FTimes(x, IncPerM))

\* rmax = Zrmax * 100000 and range(1, int(rmax + 1)): the last increment of
\* the loop
LastInc(zrmax) == Trunc(FAdd(FTimes(zrmax, IncPerM), One)) - 1

\* LayersAtOrBelow with a strict comparison: a layer's bottom increment
\* counts as below the layer
LayersAtOrBelowMut(lyr_dpths, inc) ==
    SelectSeq(lyr_dpths, LAMBDA dpth : inc < dpth * IncPerCm)

\* [dpth for (idx, dpth) in enumerate(lyr_dpths) if inc <= dpth * 1000]
LayersAtOrBelow(lyr_dpths, inc) ==
    SelectSeq(lyr_dpths, LAMBDA dpth : inc <= dpth * IncPerCm)

\* self.swcdata.loc[lyr, mykey]: the exception the lookup raises, or "none"
SwcLocErr(swc, lyr, mykey) ==
    IF swc.none THEN "AttributeError"
    ELSE IF lyr \notin Range(swc.idx) \/ mykey \notin Range(swc.cols) THEN "KeyError"
    ELSE "none"

\* the increments lo..hi execute the same statements: each finds the
\* layers that lo finds (the layers at or below an increment shrink as it
\* grows) and lies on the same side of Zr
SameStep(swd, zr, lo, hi) ==
    /\ LayersAtOrBelow(swd.idx, lo) = LayersAtOrBelow(swd.idx, hi)
    /\ (zr.isnum /\ lo <= zr.inc) = (zr.isnum /\ hi <= zr.inc)

\* Dr += d and H2Or += h when the increment is active, Drmax += d and
\* H2Ormax += h, executed n times
AddInc(acc, d, h, active, n) ==
    [Dr |-> IF active THEN AddRun(acc.Dr, d, n) ELSE acc.Dr,
     H2Or |-> IF active THEN AddRun(acc.H2Or, h, n) ELSE acc.H2Or,
     Drmax |-> AddRun(acc.Drmax, d, n),
     H2Ormax |-> AddRun(acc.H2Ormax, h, n),
     err |-> "none"]

\* the body of the loop over inc, executed for the n increments from inc on,
\* which execute the same statements; acc holds Dr, Drmax, H2Or, H2Ormax and
\* the exception raised so far; zr is the value bound to Zr
\* ([bound |-> FALSE] while no date has bound it)
IncStep(swc, swd, mykey, zr, inc, n, acc) ==
    IF acc.err # "none" THEN acc
    ELSE LET lyrs == LayersAtOrBelow(swd.idx, inc)
         IN IF Len(lyrs) = 0 THEN [acc EXCEPT !.err = "IndexError"]
            ELSE IF ~zr.bound THEN [acc EXCEPT !.err = "NameError"]
            ELSE LET lyr == lyrs[1]
                     e == SwcLocErr(swc, lyr, mykey)
                 IN IF e # "none" THEN [acc EXCEPT !.err = e]
                    ELSE AddInc(acc, FDivPerInc(swd.val[lyr][mykey]),
                                FDivPerInc(swc.val[lyr][mykey]),
                                zr.isnum /\ inc <= zr.inc, n)

\* for inc in list(range(lo, hi + 1)), run in order from the accumulators
\* acc: a stretch of increments that execute the same statements in one step
RECURSIVE IncLoop(_, _, _, _, _, _, _)
IncLoop(swc, swd, mykey, zr, lo, hi, acc) ==
    IF lo > hi THEN acc
    ELSE IF SameStep(swd, zr, lo, hi)
         THEN IncStep(swc, swd, mykey, zr, lo, hi - lo + 1, acc)
    ELSE LET mid == (lo + hi) \div 2
         IN Only({IncLoop(swc, swd, mykey, zr, mid + 1, hi, left) :
                    left \in {IncLoop(swc, swd, mykey, zr, lo, mid, acc)}})

\* Dr = Drmax = H2Or = H2Ormax = 0.
ZeroAcc ==
    [Dr |-> Zero, H2Or |-> Zero, Drmax |-> Zero, H2Ormax |-> Zero, err |-> "none"]

\* Zr = rzdata.loc[mykey, 'Zr'] * 100000, which leaves Zr as it was when the
\* merged table has no row for mykey.  inc <= Zr holds for the increments up
\* to inc when Zr is a number, for every increment when Zr is inf, and for
\* none when Zr is NaN or -inf (isnum is FALSE)
BindZr(m, mykey, zr) ==
    IF mykey \in Range(m.odata.idx)
    THEN LET x == m.odata.val[mykey]["Zr"]
         IN IF IsNum(x) THEN [bound |-> TRUE, isnum |-> TRUE, inc |-> ToInc(x)]
            ELSE IF x = PosInf THEN [bound |-> TRUE, isnum |-> TRUE, inc |-> 2 ^ 30]
            ELSE [bound |-> TRUE, isnum |-> FALSE, inc |-> 0]
    ELSE zr

Unbound == [bound |-> FALSE, isnum |-> FALSE, inc |-> 0]

\* for mykey in swd_dates, from the i-th date on: the sums stored per date
\* so far (sums), and the exception that stopped the loop
RECURSIVE DateLoop(_, _, _, _, _, _)
DateLoop(m, swc, swd, i, zr, sums) ==
    IF i > Len(swd.cols) THEN [sums |-> sums, err |-> "none"]
    ELSE LET mykey == swd.cols[i]
         IN Only({Only({IF acc.err # "none" THEN [sums |-> sums, err |-> acc.err]
                        ELSE DateLoop(m, swc, swd, i + 1, zr2,
                                      [k \in DOMAIN sums \cup {mykey} |->
                                          IF k = mykey THEN acc ELSE sums[k]]) :
                        acc \in {IncLoop(swc, swd, mykey, zr2, 1, LastInc(m.Zrmax),
                                         ZeroAcc)}}) :
                  zr2 \in {BindZr(m, mykey, zr)}})

\* Ks[mykey] = sorted([0.0, (taw - dr) / (taw - raw), 1.0])[1]
MeasKsOf(taw, raw, dr) ==
    Median01(FDiv(FSub(taw, dr), FSub(taw, raw)))

\* the rows of rzdata after the merge: the dates of swddata that the model's
\* output table has, in the order of swddata's columns
MergedDates(m, swd) ==
    SelectSeq(swd.cols, LAMBDA date : date \in Range(m.odata.idx))

\* the rows of rzdata after rzdata['SWDr'] = pd.Series(SWDr): a table with
\* rows keeps them and the series is aligned on them; a table without rows
\* takes the index of a series that is not empty, the dates with sums
RzRows(m, swd, sums) ==
    IF Len(MergedDates(m, swd)) = 0
    THEN SelectSeq(swd.cols, LAMBDA date : date \in DOMAIN sums)
    ELSE MergedDates(m, swd)

\* for mykey, value in rzdata.iterrows(): self.mdl.odata.loc[mykey, 'TAW']
\* raises KeyError for a row whose date the model's output table lacks
KsErr(m, rows) ==
    IF \E date \in Range(rows) : date \notin Range(m.odata.idx)
    THEN "KeyError" ELSE "none"

\* the table compute_root_zone_sw builds from the sums; a row taken from the
\* sums has no Year, DOY and Zr (NaN), and no MeasKs is computed for it
RootZoneTable(m, swd, sums) ==
    LET rows == RzRows(m, swd, sums)
    IN DF(rows, rz_cnames,
          [date \in Range(rows) |->
             [c \in Range(rz_cnames) |->
                IF c \in {"Year", "DOY", "Zr", "MeasKs"} /\ date \notin Range(m.odata.idx)
                THEN NaN
                ELSE IF c = "Year" THEN Str(DateYear(date))
                ELSE IF c = "DOY" THEN Str(DateDoy(date))
                ELSE IF c = "Zr" THEN m.odata.val[date]["Zr"]
                ELSE IF c = "SWDr" THEN sums[date].Dr
                ELSE IF c = "SWDrmax" THEN sums[date].Drmax
                ELSE IF c = "SWCr" THEN sums[date].H2Or
                ELSE IF c = "SWCrmax" THEN sums[date].H2Ormax
                ELSE MeasKsOf(m.odata.val[date]["TAW"], m.odata.val[date]["RAW"],
                              sums[date].Dr)]])

\* compute_root_zone_sw(self)
ComputeRootZoneSw(m, swc, swd, rz) ==
    IF swd.none THEN Outcome(swc, swd, rz, "none", <<"populate swddata">>)
    ELSE IF ~m.given THEN Outcome(swc, swd, rz, "AttributeError", <<>>)
    ELSE Only({IF r.err # "none" THEN Outcome(swc, swd, rz, r.err, <<>>)
               ELSE IF KsErr(m, RzRows(m, swd, r.sums)) # "none"
                    THEN Outcome(swc, swd, rz, KsErr(m, RzRows(m, swd, r.sums)), <<>>)
               ELSE Outcome(swc, swd, RootZoneTable(m, swd, r.sums), "none", <<>>) :
               r \in {DateLoop(m, swc, swd, 1, Unbound, <<>>)}})

(***************************************************************************)
(* Files.  A path is a file, is absent in a directory that exists, lies in *)
(* a directory that does not exist, may not be opened by this user, or is  *)
(* a directory.                                                            *)
(***************************************************************************)
File(lines) == [st |-> "file", lines |-> lines]
NoFile(st) == [st |-> st, lines |-> <<>>]

\* OpenRead that reports every failure of open() as FileNotFoundError
OpenReadMut(f) ==
    IF f.st = "file" THEN "ok" ELSE "FileNotFoundError"

\* open(path, 'r'): "ok" or the exception raised
OpenRead(f) ==
    IF f.st = "file" THEN "ok"
    ELSE IF f.st \in {"absent", "nodir"} THEN "FileNotFoundError"
    ELSE IF f.st = "denied" THEN "PermissionError"
    ELSE "IsADirectoryError"

\* open(path, 'w'): "ok" or the exception raised
OpenWrite(f) ==
    IF f.st \in {"file", "absent"} THEN "ok"
    ELSE IF f.st = "nodir" THEN "FileNotFoundError"
    ELSE IF f.st = "denied" THEN "PermissionError"
    ELSE "IsADirectoryError"

\* the argument None
NoPath == "None"

(***************************************************************************)
(* loadfile.                                                               *)
(***************************************************************************)
\* if swc_path is not None: ...
LoadSwcPart(fs, path, s) ==
    IF s.err # "none" \/ path = NoPath THEN s
    ELSE LET o == OpenRead(fs[path])
         IN IF o = "FileNotFoundError"
            THEN [s EXCEPT !.out = Append(@, "swc path not found")]
            ELSE IF o # "ok" THEN [s EXCEPT !.err = o]
            ELSE LET r == LoadLayered(fs[path].lines, s.swc)
                 IN [s EXCEPT !.swc = r.df, !.err = r.err]

\* if swd_path is not None: ...
LoadSwdPart(fs, path, s) ==
    IF s.err # "none" \/ path = NoPath THEN s
    ELSE LET o == OpenRead(fs[path])
         IN IF o = "FileNotFoundError"
            THEN [s EXCEPT !.out = Append(@, "swd path not found")]
            ELSE IF o # "ok" THEN [s EXCEPT !.err = o]
            ELSE LET r == LoadLayered(fs[path].lines, s.swd)
                 IN [s EXCEPT !.swd = r.df, !.err = r.err]

\* if rzsw_path is not None: ...
LoadRzPart(fs, path, s) ==
    IF s.err # "none" \/ path = NoPath THEN s
    ELSE LET o == OpenRead(fs[path])
         IN IF o = "FileNotFoundError"
            THEN [s EXCEPT !.out = Append(@, "rzsw path not found")]
            ELSE IF o # "ok" THEN [s EXCEPT !.err = o]
            ELSE LET r == LoadRz(fs[path].lines)
                 IN [s EXCEPT !.rz = r.df, !.err = r.err]

\* if (swc_path is None)&(swd_path is None)&(rzsw_path is None): print(...)
NoPathPart(swc_path, swd_path, rzsw_path, s) ==
    IF s.err = "none" /\ swc_path = NoPath /\ swd_path = NoPath /\ rzsw_path = NoPath
    THEN [s EXCEPT !.out = Append(@, "specify a filepath")]
    ELSE s

\* loadfile(self, swc_path, swd_path, rzsw_path)
LoadFile(fs, swc_path, swd_path, rzsw_path, s) ==
    NoPathPart(swc_path, swd_path, rzsw_path,
        LoadRzPart(fs, rzsw_path,
            LoadSwdPart(fs, swd_path,
                LoadSwcPart(fs, swc_path, s))))

(***************************************************************************)
(* savefile.                                                               *)
(***************************************************************************)
\* one of the three parts of savefile: open the path for writing and write
\* the table's text; __str__ of a table that is None prints and returns
\* None, and f.write(None) raises after the file was truncated.  s holds the
\* files, the exception and the messages so far
SavePart(path, df, isrz, s) ==
    IF s.err # "none" \/ path = NoPath THEN s
    ELSE LET o == OpenWrite(s.fs[path])
         IN IF o = "FileNotFoundError"
            THEN [s EXCEPT !.out = Append(@, "save path not found")]
            ELSE IF o # "ok" THEN [s EXCEPT !.err = o]
            ELSE IF df.none
                 THEN [fs |-> [s.fs EXCEPT ![path] = File(<<>>)],
                       err |-> "TypeError",
                       out |-> Append(s.out, "attribute is empty")]
            ELSE [s EXCEPT !.fs = [@ EXCEPT ![path] =
                                      File(IF isrz THEN StrRz(df) ELSE StrLayered(df))]]

\* savefile(self, swc_path, swd_path, rzsw_path)
SaveFile(fs, swc, swd, rz, swc_path, swd_path, rzsw_path) ==
    NoPathPart(swc_path, swd_path, rzsw_path,
        SavePart(rzsw_path, rz, TRUE,
            SavePart(swd_path, swd, FALSE,
                SavePart(swc_path, swc, FALSE,
                    [fs |-> fs, err |-> "none", out |-> <<>>]))))

(***************************************************************************)
(* __init__.                                                               *)
(***************************************************************************)
accepted_extensions == {"vswc", "vswd", "rzsw"}

\* filepath.rsplit('.', 1)[-1].lower() for the paths of the model
Extension(path) ==
    IF path \in {"a.vswc", "bad.vswc"} THEN "vswc"
    ELSE IF path \in {"a.vswd", "bad.vswd"} THEN "vswd"
    ELSE IF path \in {"a.rzsw", "bad.rzsw"} THEN "rzsw"
    ELSE "txt"

\* for filepath in args, from the i-th path on
RECURSIVE InitLoads(_, _, _, _)
InitLoads(fs, args, i, s) ==
    IF i > Len(args) \/ s.err # "none" THEN s
    ELSE LET path == args[i]
             ext == Extension(path)
         IN IF ext \notin accepted_extensions THEN [s EXCEPT !.err = "ValueError"]
            ELSE InitLoads(fs, args, i + 1,
                    LoadFile(fs,
                             IF ext = "vswc" THEN path ELSE NoPath,
                             IF ext = "vswd" THEN path ELSE NoPath,
                             IF ext = "rzsw" THEN path ELSE NoPath, s))

\* a call made after another inside one method: skipped when the first
\* raised, its messages added to the first's
Then(s, t) ==
    IF s.err # "none" THEN s ELSE [t EXCEPT !.out = s.out \o @]

\* the derivations at the end of __init__ when files were passed
InitDerive(m, s) ==
    IF s.err # "none" THEN s
    ELSE IF s.swd.none /\ s.rz.none
         THEN LET t == Then(s, ComputeSwdFromSwc(m, s.swc, s.swd, s.rz))
              IN Then(t, ComputeRootZoneSw(m, t.swc, t.swd, t.rz))
    ELSE IF s.rz.none
         THEN Then(s, ComputeRootZoneSw(m, s.swc, s.swd, s.rz))
    ELSE s

\* SoilWater(mdl, *args)
NewSoilWater(m, fs, args) ==
    IF Len(args) > 0
    THEN InitDerive(m, InitLoads(fs, args, 1, Outcome(NoneDF, NoneDF, NoneDF, "none", <<>>)))
    ELSE Outcome(EmptyDF(<<>>), EmptyDF(<<>>), EmptyDF(rz_cnames), "none", <<>>)

(***************************************************************************)
(* The inputs of the model: dates, files and model objects.                *)
(***************************************************************************)
D1 == DateKey(2022, 1)
D2 == DateKey(2022, 2)

\* the float literals of the inputs: a fraction or a depth of water in
\* millimetres written with three decimals, and a root depth in metres
\* written with five
Frac(milli) == Dec(milli, Milli)
Mm(milli) == Dec(milli, Milli)
Metres(inc) == Dec(inc, IncPerM)

\* a content file, layers ascending, one value above field capacity and one
\* missing
SwcFileAsc ==
    File(TitleBlock \o
         << <<TWord, TDate(D1), TDate(D2)>>,
            <<TInt(1), TF3(350), TF3(250)>>,
            <<TInt(2), TF3(200), TNaN>> >>)

\* a content file whose layers are written deepest first
SwcFileDesc ==
    File(TitleBlock \o
         << <<TWord, TDate(D1), TDate(D2)>>,
            <<TInt(2), TF3(200), TF3(100)>>,
            <<TInt(1), TF3(350), TF3(250)>> >>)

\* a content file whose header line names no date: 'Depth', then the
\* layer 1 without values
SwcFileNoDates ==
    File(TitleBlock \o << <<TWord>>, <<TInt(1)>> >>)

\* a deficit file with a negative value
SwdFileNeg ==
    File(TitleBlock \o
         << <<TWord, TDate(D1), TDate(D2)>>,
            <<TInt(1), TF3(0), TF3(50)>>,
            <<TInt(2), TF3(-20), TF3(100)>> >>)

\* a root-zone file with one date
RzFileOne ==
    File(TitleBlock \o
         << [j \in 1..Len(rz_cnames) |-> TWord],
            <<TInt(2022), TInt(1), TF3(300), TF3(1250), TF3(2500),
              TF3(3000), TF3(6000), TF3(875)>> >>)

GoodPaths == {"a.vswc", "a.vswd", "a.rzsw"}
BadPaths == {"bad.vswc", "bad.vswd", "bad.rzsw"}
Paths == GoodPaths \cup BadPaths \cup {"notes.txt"}

\* why each bad.* path cannot be opened
BadStatus(p) ==
    IF p = "bad.vswc" THEN "nodir" ELSE IF p = "bad.vswd" THEN "denied" ELSE "isdir"

\* a file system: the three a.* paths hold fa, fb and fc, and the bad.*
\* paths cannot be opened
FileSystem(fa, fb, fc) ==
    [p \in Paths |->
        IF p = "a.vswc" THEN fa
        ELSE IF p = "a.vswd" THEN fb
        ELSE IF p = "a.rzsw" THEN fc
        ELSE IF p = "notes.txt" THEN NoFile("absent")
        ELSE NoFile(BadStatus(p))]

FileSystems ==
    {FileSystem(fa, fb, fc) :
        fa \in {NoFile("absent"), SwcFileAsc, SwcFileDesc},
        fb \in {NoFile("absent"), SwdFileNeg},
        fc \in {NoFile("absent"), RzFileOne}}

\* mdl.sol.sdata with a field capacity for both layers, and for the first only
SolBoth ==
    DF(<<1, 2>>, <<"thetaFC">>,
       [l \in {1, 2} |-> [c \in {"thetaFC"} |-> IF l = 1 THEN Frac(300) ELSE Frac(320)]])
SolFirst ==
    DF(<<1>>, <<"thetaFC">>, [l \in {1} |-> [c \in {"thetaFC"} |-> Frac(300)]])

\* one row of mdl.odata
ORow(zr, taw, raw) == [c \in {"Zr", "TAW", "RAW"} |->
                         IF c = "Zr" THEN zr ELSE IF c = "TAW" THEN taw ELSE raw]

\* mdl.odata with the dates of the sequence ds; on D1 the root zone is empty
\* of available water (TAW = RAW = 0)
OData(ds, zr1, zr2) ==
    DF(ds, <<"Zr", "TAW", "RAW">>,
       [date \in Range(ds) |->
          IF date = D1 THEN ORow(Metres(zr1), Mm(0), Mm(0))
          ELSE ORow(Metres(zr2), Mm(40), Mm(20))])

\* no mdl argument: the object has no mdl attribute
NoMdl == [given |-> FALSE, sol |-> NoneDF, thetaFC |-> NaN, Zrmax |-> NaN,
          odata |-> NoneDF]

Mdl(sol, zrmax, odata) ==
    [given |-> TRUE, sol |-> sol, thetaFC |-> Frac(300), Zrmax |-> Metres(zrmax),
     odata |-> odata]

\* the deepest root depth of the shallow models, in increments
MaxZrInc == 2

\* a model without root zone (Zrmax = 0: the loop over the increments has
\* no iteration) whose output table has no date
NoRootsModel == Mdl(NoneDF, 0, OData(<<>>, 1, MaxZrInc))

ShallowModels ==
    {NoMdl, NoRootsModel} \cup
    {Mdl(sol, zrmax, OData(ds, 1, MaxZrInc)) :
        sol \in {NoneDF, SolBoth, SolFirst},
        zrmax \in {MaxZrInc},
        ds \in {<<D1, D2>>, <<D2>>, <<D1>>}}

\* the bottom of the deepest layer of the files, in increments
DeepestInc == 2 * IncPerCm

\* models whose roots reach the layer boundaries: Zrmax at the bottom of the
\* deepest layer or one increment beyond it; Zr one increment into the second
\* layer on D1 and beyond the deepest layer on D2
DeepModels ==
    {Mdl(NoneDF, zrmax, OData(ds, IncPerCm + 1, DeepestInc + MaxZrInc)) :
        zrmax \in {DeepestInc, DeepestInc + 1},
        ds \in {<<D1, D2>>, <<D2>>}}

DeepFileSystems ==
    {FileSystem(fa, SwdFileNeg, NoFile("absent")) :
        fa \in {SwcFileAsc, SwcFileDesc, SwcFileNoDates}}

(***************************************************************************)
(* pyfao56.tools.stats.Statistics.  meas and modeled are lists of whole    *)
(* numbers; the statistics are kept as exact fractions Num(n, d), and the  *)
(* square root of n/d as the cell [k |-> "sqrt", n, d].                    *)
(***************************************************************************)
\* the exact fraction n/d
Num(n, d) == [k |-> "num", n |-> n, d |-> d]

\* sum(f(i) for i in 1..n)
RECURSIVE SumTo(_, _)
SumTo(f, n) == IF n = 0 THEN 0 ELSE f[n] + SumTo(f, n - 1)

\* sum(listx)
SumOf(listx) == SumTo(listx, Len(listx))

\* sum of the products listx[i] * listy[i]
SumProd(listx, listy) ==
    SumTo([i \in 1..Len(listx) |-> listx[i] * listy[i]], Len(listx))

\* the fraction n/d with a positive denominator
Frac2(n, d) == IF d < 0 THEN Num(-n, -d) ELSE Num(n, d)

\* math.sqrt(x)
Sqrt(x) == [k |-> "sqrt", n |-> x.n, d |-> x.d]

\* all_identical(self, listx)
all_identical(listx) ==
    \A i \in 2..Len(listx) : ~(listx[i] # listx[i - 1])

\* rmse(self, meas, modeled)
rmse(meas, modeled) ==
    LET squared_differences ==
            [i \in 1..Len(meas) |-> (meas[i] - modeled[i]) * (meas[i] - modeled[i])]
    IN Sqrt(Frac2(SumOf(squared_differences), Len(squared_differences)))

\* (modeled_mean - meas_mean) / meas_mean * 100
bias(meas, modeled) ==
    Frac2((SumOf(modeled) * Len(meas) - SumOf(meas) * Len(modeled)) * 100,
          SumOf(meas) * Len(modeled))

\* scipy.stats.linregress(x=modeled, y=meas).rvalue ** 2
rsquare(meas, modeled) ==
    LET n == Len(meas)
        sxy == n * SumProd(modeled, meas) - SumOf(modeled) * SumOf(meas)
        sxx == n * SumProd(modeled, modeled) - SumOf(modeled) * SumOf(modeled)
        syy == n * SumProd(meas, meas) - SumOf(meas) * SumOf(meas)
    IN Frac2(sxy * sxy, sxx * syy)

\* nse(self, meas, modeled): 1 - (sse / sst)
nse(meas, modeled) ==
    LET n == Len(meas)
        sse == SumTo([i \in 1..n |-> (meas[i] - modeled[i]) * (meas[i] - modeled[i])], n)
        nsst == n * SumProd(meas, meas) - SumOf(meas) * SumOf(meas)
    IN Frac2(nsst - n * sse, nsst)

\* the object's state before Statistics(meas, modeled) is called
StatsInput(meas, modeled) ==
    [meas |-> meas, modeled |-> modeled, pc |-> "new", branch |-> "none",
     locals |-> <<>>, out |-> <<>>, err |-> "none", ret |-> <<>>]

\* Statistics(meas, modeled): __init__ runs to its return statement, or to
\* the ZeroDivisionError of the bias when the measured values sum to zero;
\* locals holds rmse, bias, rsquare, nse at the return statement.  __init__
\* returns a tuple, and instantiation raises TypeError for an __init__ that
\* returns anything but None, so nothing is returned to the caller
NewStatistics(meas, modeled) ==
    LET meas_check == all_identical(meas)
        modeled_check == all_identical(modeled)
        printed == (IF meas_check THEN <<"Measured values">> ELSE <<>>)
                   \o (IF modeled_check THEN <<"Modeled values">> ELSE <<>>)
        base == [StatsInput(meas, modeled) EXCEPT !.pc = "done", !.out = printed]
    IN IF meas # modeled /\ ~meas_check /\ ~modeled_check
       THEN IF SumOf(meas) = 0
            THEN [base EXCEPT !.branch = "computed", !.err = "ZeroDivisionError"]
            ELSE [base EXCEPT !.branch = "computed",
                              !.locals = <<rmse(meas, modeled), bias(meas, modeled),
                                           rsquare(meas, modeled), nse(meas, modeled)>>,
                              !.err = "TypeError"]
       ELSE [base EXCEPT !.branch = "degenerate",
                         !.locals = <<Num(0, 1), Num(0, 1), Num(1, 1), Num(1, 1)>>,
                         !.err = "TypeError"]

\* the longest list and the largest absolute value of the inputs
MaxLen == 3
MaxAbs == 1

\* the lists of length n over the values
ListsOf(n) == [1..n -> (-MaxAbs)..MaxAbs]

\* the pairs of equal-length lists
StatsInputs ==
    {StatsInput(meas, modeled) : <<meas, modeled>> \in
        UNION {ListsOf(n) \X ListsOf(n) : n \in 0..MaxLen}}

\* no Statistics call is under way
NoStats == StatsInput(<<>>, <<>>)

(***************************************************************************)
(* The state machine.                                                      *)
(***************************************************************************)
\* first: the deficit table and the root-zone table as the first derivation
\* of each left them, in the run of calls since construction or the last
\* loadfile; rzAfterSwd tells whether the deficit table had been derived when
\* the root-zone table first was
NoFirst ==
    [hasSwd |-> FALSE, swd |-> NoneDF, hasRz |-> FALSE, rz |-> NoneDF,
     rzAfterSwd |-> FALSE]

\* a derivation reached its last line, the assignment to the attribute: it
\* neither raised nor printed its message and returned
Wrote(r) == r.err = "none" /\ r.out = <<>>

\* self.swddata = swddata
AfterSwdWrite(f, swd) ==
    IF f.hasSwd THEN f ELSE [f EXCEPT !.hasSwd = TRUE, !.swd = swd]

\* self.rzdata = rzdata
AfterRzWrite(f, rz) ==
    IF f.hasRz THEN f
    ELSE [f EXCEPT !.hasRz = TRUE, !.rz = rz, !.rzAfterSwd = f.hasSwd]

\* the derivations of __init__: r is the object built from args, s the
\* tables once the files were loaded
FirstOfConstruct(fs, args, r) ==
    IF Len(args) = 0 \/ r.err # "none" THEN NoFirst
    ELSE LET s == InitLoads(fs, args, 1, Outcome(NoneDF, NoneDF, NoneDF, "none", <<>>))
             f == IF s.swd.none /\ s.rz.none /\ ~r.swd.none
                  THEN AfterSwdWrite(NoFirst, r.swd) ELSE NoFirst
         IN IF s.rz.none /\ ~r.rz.none THEN AfterRzWrite(f, r.rz) ELSE f

Call(op, swc_path, swd_path, rzsw_path, args) ==
    [op |-> op, swc |-> swc_path, swd |-> swd_path, rzsw |-> rzsw_path, args |-> args]

\* the sequences of at most MaxArgs paths
RECURSIVE SeqsUpTo(_, _)
SeqsUpTo(S, n) ==
    IF n = 0 THEN {<<>>}
    ELSE LET shorter == SeqsUpTo(S, n - 1)
         IN shorter \cup {Append(q, x) : q \in shorter, x \in S}

InitWith(models, filesystems) ==
    /\ mdl \in models
    /\ files \in filesystems
    /\ swcdata = NoneDF
    /\ swddata = NoneDF
    /\ rzdata = NoneDF
    /\ phase = "new"
    /\ call = Call("none", NoPath, NoPath, NoPath, <<>>)
    /\ err = "none"
    /\ out = <<>>
    /\ ncalls = 0
    /\ stats = NoStats
    /\ first = NoFirst

Init == InitWith(ShallowModels, FileSystems)

\* obj = SoilWater(mdl, *args)
Construct ==
    /\ phase = "new"
    /\ \E args \in SeqsUpTo(Paths, MaxArgs) :
         \E r \in {NewSoilWater(mdl, files, args)} :
            /\ swcdata' = r.swc
            /\ swddata' = r.swd
            /\ rzdata' = r.rz
            /\ err' = r.err
            /\ out' = r.out
            /\ phase' = IF r.err = "none" THEN "live" ELSE "failed"
            /\ call' = Call("init", NoPath, NoPath, NoPath, args)
            /\ first' = FirstOfConstruct(files, args, r)
    /\ UNCHANGED <<mdl, files, ncalls, stats>>

\* the path arguments of a loadfile or savefile call: none, one path of the
\* kind of its parameter, or the three a.* paths
PathArgs ==
    {<<NoPath, NoPath, NoPath>>, <<"a.vswc", "a.vswd", "a.rzsw">>}
    \cup {<<p, NoPath, NoPath>> : p \in {q \in Paths : Extension(q) = "vswc"}}
    \cup {<<NoPath, p, NoPath>> : p \in {q \in Paths : Extension(q) = "vswd"}}
    \cup {<<NoPath, NoPath, p>> : p \in {q \in Paths : Extension(q) = "rzsw"}}

\* obj.loadfile(swc_path, swd_path, rzsw_path)
Loadfile ==
    /\ phase = "live"
    /\ ncalls < MaxCalls
    /\ \E a \in PathArgs :
         \E r \in {LoadFile(files, a[1], a[2], a[3],
                            Outcome(swcdata, swddata, rzdata, "none", <<>>))} :
            /\ swcdata' = r.swc
            /\ swddata' = r.swd
            /\ rzdata' = r.rz
            /\ err' = r.err
            /\ out' = r.out
            /\ call' = Call("loadfile", a[1], a[2], a[3], <<>>)
    /\ first' = NoFirst
    /\ ncalls' = ncalls + 1
    /\ UNCHANGED <<mdl, files, phase, stats>>

\* obj.savefile(swc_path, swd_path, rzsw_path)
Savefile ==
    /\ phase = "live"
    /\ ncalls < MaxCalls
    /\ \E a \in PathArgs :
         \E r \in {SaveFile(files, swcdata, swddata, rzdata, a[1], a[2], a[3])} :
            /\ files' = r.fs
            /\ err' = r.err
            /\ out' = r.out
            /\ call' = Call("savefile", a[1], a[2], a[3], <<>>)
    /\ ncalls' = ncalls + 1
    /\ UNCHANGED <<mdl, swcdata, swddata, rzdata, phase, stats, first>>

\* obj.compute_swd_from_swc()
ComputeSwd ==
    /\ phase = "live"
    /\ ncalls < MaxCalls
    /\ \E r \in {ComputeSwdFromSwc(mdl, swcdata, swddata, rzdata)} :
          /\ swcdata' = r.swc
          /\ swddata' = r.swd
          /\ rzdata' = r.rz
          /\ err' = r.err
          /\ out' = r.out
          /\ first' = IF Wrote(r) THEN AfterSwdWrite(first, r.swd) ELSE first
    /\ call' = Call("compute_swd_from_swc", NoPath, NoPath, NoPath, <<>>)
    /\ ncalls' = ncalls + 1
    /\ UNCHANGED <<mdl, files, phase, stats>>

\* obj.compute_root_zone_sw()
ComputeRz ==
    /\ phase = "live"
    /\ ncalls < MaxCalls
    /\ \E r \in {ComputeRootZoneSw(mdl, swcdata, swddata, rzdata)} :
          /\ swcdata' = r.swc
          /\ swddata' = r.swd
          /\ rzdata' = r.rz
          /\ err' = r.err
          /\ out' = r.out
          /\ first' = IF Wrote(r) THEN AfterRzWrite(first, r.rz) ELSE first
    /\ call' = Call("compute_root_zone_sw", NoPath, NoPath, NoPath, <<>>)
    /\ ncalls' = ncalls + 1
    /\ UNCHANGED <<mdl, files, phase, stats>>

Next == Construct \/ Loadfile \/ Savefile \/ ComputeSwd \/ ComputeRz

Spec == Init /\ [][Next]_vars

\* the same object with deep-rooted models
InitDeep == InitWith(DeepModels, DeepFileSystems)

SpecDeep == InitDeep /\ [][Next]_vars

\* Statistics(meas, modeled) on a pair of equal-length lists; no SoilWater
\* object is involved
InitStats ==
    /\ stats \in StatsInputs
    /\ mdl = NoMdl
    /\ files = FileSystem(NoFile("absent"), NoFile("absent"), NoFile("absent"))
    /\ swcdata = NoneDF
    /\ swddata = NoneDF
    /\ rzdata = NoneDF
    /\ phase = "new"
    /\ call = Call("none", NoPath, NoPath, NoPath, <<>>)
    /\ err = "none"
    /\ out = <<>>
    /\ ncalls = 0
    /\ first = NoFirst

\* s = Statistics(meas, modeled)
ConstructStatistics ==
    /\ stats.pc = "new"
    /\ stats' = NewStatistics(stats.meas, stats.modeled)
    /\ UNCHANGED <<mdl, files, swcdata, swddata, rzdata, phase, call, err, out, ncalls,
                   first>>

NextStats == ConstructStatistics

SpecStats == InitStats /\ [][NextStats]_vars

(***************************************************************************)
(* Properties.                                                             *)
(***************************************************************************)
\* the three tables of the object
tables == <<swcdata, swddata, rzdata>>

\* the last call was compute_root_zone_sw and it computed a table: it had a
\* model and a deficit table, and returned
RzComputed ==
    /\ call.op = "compute_root_zone_sw"
    /\ mdl.given
    /\ ~swddata.none
    /\ err = "none"

\* the shallowest layer of idx whose bottom (cm * 1000) is at or beyond inc
ShallowestLayer(idx, inc) ==
    LET at == {dpth \in Range(idx) : inc <= dpth * IncPerCm}
    IN CHOOSE dpth \in at : \A other \in at : dpth <= other

\* the sum, added up from 0. one increment after the other, over the
\* increments 1..lim of tbl[shallowest layer, date] / 100
RECURSIVE SumOverIncrements(_, _, _)
SumOverIncrements(tbl, date, lim) ==
    IF lim <= 0 THEN Zero
    ELSE Only({FAdd(before, FDivPerInc(tbl.val[ShallowestLayer(tbl.idx, lim)][date])) :
                 before \in {SumOverIncrements(tbl, date, lim - 1)}})

MinOf(a, b) == IF a <= b THEN a ELSE b

\* C1: after compute_root_zone_sw, each date's SWDrmax and SWCrmax are the sums
\* over the increments 1..Zrmax*100000 of the value of the shallowest layer at
\* or beyond the increment, and SWDr and SWCr the same sums over the increments
\* up to Zr*100000, in whatever order the table index lists the layers
ClaimC1 ==
    RzComputed =>
      \A date \in Range(rzdata.idx) :
        LET rmax == LastInc(mdl.Zrmax)
            zr == MinOf(ToInc(rzdata.val[date]["Zr"]), rmax)
            row == rzdata.val[date]
        IN /\ row["SWDrmax"] = SumOverIncrements(swddata, date, rmax)
           /\ row["SWCrmax"] = SumOverIncrements(swcdata, date, rmax)
           /\ row["SWDr"] = SumOverIncrements(swddata, date, zr)
           /\ row["SWCr"] = SumOverIncrements(swcdata, date, zr)

\* C2: after compute_root_zone_sw, every MeasKs is a number between 0 and 1,
\* equal to (TAW - SWDr) / (TAW - RAW) clamped to [0, 1], also when TAW = RAW
ClaimC2 ==
    RzComputed =>
      \A date \in Range(rzdata.idx) :
        LET ks == rzdata.val[date]["MeasKs"]
            taw == mdl.odata.val[date]["TAW"]
            raw == mdl.odata.val[date]["RAW"]
            dr == rzdata.val[date]["SWDr"]
            den == FSub(taw, raw)
            ratio == FDiv(FSub(taw, dr), den)
        IN /\ IsNum(ks)
           /\ ~FLess(ks, Zero) /\ ~FLess(One, ks)
           /\ (IsNum(dr) /\ FLess(Zero, den)) =>
                 IF FLess(ratio, Zero) THEN ks = Zero
                 ELSE IF FLess(One, ratio) THEN ks = One
                 ELSE ks = ratio

\* the last call was compute_swd_from_swc on a content table, with a model
SwdDerived ==
    /\ call.op = "compute_swd_from_swc"
    /\ mdl.given
    /\ ~swcdata.none
    /\ err = "none"

\* the model has a field capacity for layer l
HasFC(l) == mdl.sol.none \/ l \in Range(mdl.sol.idx)
\* FC(l): the profile's thetaFC for the layer, or the scalar parameter
FC(l) == IF mdl.sol.none THEN mdl.thetaFC ELSE mdl.sol.val[l]["thetaFC"]

\* max(0, FC(l) - x)
MaxZeroDiff(l, x) ==
    IF FLess(Zero, FSub(FC(l), x)) THEN FSub(FC(l), x) ELSE Zero

\* C3, as claimed: after compute_swd_from_swc with a model, every layer and
\* date of the content table has the deficit max(0, FC(l) - content), a
\* number >= 0
ClaimC3 ==
    SwdDerived =>
      \A l \in Range(swcdata.idx), date \in Range(swcdata.cols) :
        /\ l \in Range(swddata.idx)
        /\ IsNum(swddata.val[l][date])
        /\ ~FLess(swddata.val[l][date], Zero)
        /\ HasFC(l) /\ IsNum(swcdata.val[l][date])
        /\ swddata.val[l][date] = MaxZeroDiff(l, swcdata.val[l][date])

\* C3, amended: after compute_swd_from_swc with a model, a layer and date
\* whose content is a number and whose layer has a field capacity in the model
\* has the deficit max(0, FC(l) - content); every other layer and date of the
\* content table has a missing (NaN) deficit
ThmC3 ==
    SwdDerived =>
      \A l \in Range(swcdata.idx), date \in Range(swcdata.cols) :
        /\ l \in Range(swddata.idx)
        /\ IF HasFC(l) /\ IsNum(swcdata.val[l][date])
           THEN swddata.val[l][date] = MaxZeroDiff(l, swcdata.val[l][date])
           ELSE swddata.val[l][date] = NaN

\* a derivation that clamped a content above field capacity to a zero deficit
\* and left a missing content missing
WitC3 ==
    /\ SwdDerived
    /\ \E l \in Range(swcdata.idx), date \in Range(swcdata.cols) :
         /\ HasFC(l) /\ IsNum(swcdata.val[l][date])
         /\ FLess(FC(l), swcdata.val[l][date])
         /\ swddata.val[l][date] = Zero
    /\ \E l \in Range(swcdata.idx), date \in Range(swcdata.cols) :
         /\ ~IsNum(swcdata.val[l][date])
         /\ swddata.val[l][date] = NaN

\* C4: compute_root_zone_sw on a deficit table some of whose dates the model's
\* output lacks, wherever they stand in the date order, returns without
\* raising with one row per date that both tables have
ClaimC4 ==
    (/\ call.op = "compute_root_zone_sw"
     /\ mdl.given
     /\ ~swddata.none
     /\ ~swcdata.none
     /\ swcdata.idx = swddata.idx /\ swcdata.cols = swddata.cols
     /\ Len(swddata.idx) > 0
     /\ \A l \in Range(swddata.idx) : LastInc(mdl.Zrmax) <= l * IncPerCm)
    => /\ err = "none"
       /\ Range(rzdata.idx) = Range(swddata.cols) \cap Range(mdl.odata.idx)
       /\ Len(rzdata.idx) = Cardinality(Range(rzdata.idx))

\* the cells of a layer table that hold a negative number
NegativeCells(tbl) ==
    {<<l, date>> \in Range(tbl.idx) \X Range(tbl.cols) :
        FLess(tbl.val[l][date], Zero)}

\* C5, as claimed: in every reachable state every value of swddata is a
\* number >= 0
ClaimC5 ==
    phase = "live" =>
      \A l \in Range(swddata.idx), date \in Range(swddata.cols) :
        IsNum(swddata.val[l][date]) /\ ~FLess(swddata.val[l][date], Zero)

\* C5, amended: no call other than a load puts a negative value into swddata:
\* after compute_swd_from_swc, compute_root_zone_sw or savefile every negative
\* value of swddata was there before the call, and after a compute_swd_from_swc
\* that wrote the table there is none (each value is >= 0 or missing); loadfile
\* stores the values of the file as they are, negative ones included
ThmC5 ==
    [][(call'.op \in {"compute_swd_from_swc", "compute_root_zone_sw", "savefile"})
          => /\ NegativeCells(swddata') \subseteq NegativeCells(swddata)
             /\ (call'.op = "compute_swd_from_swc" /\ swddata' # swddata)
                  => NegativeCells(swddata') = {}]_vars

\* compute_swd_from_swc has replaced a loaded deficit table that held a
\* negative value by a derived one
WitC5 ==
    /\ SwdDerived
    /\ call.args = <<>>
    /\ files["a.vswd"] = SwdFileNeg
    /\ \E l \in Range(swcdata.idx), date \in Range(swcdata.cols) :
         /\ IsNum(swcdata.val[l][date]) /\ HasFC(l)
         /\ FLess(FC(l), swcdata.val[l][date])
    /\ NegativeCells(swddata) = {}
    /\ Len(swddata.idx) > 0

\* the bottom of the deepest layer of the deficit table, in increments (0 for
\* a table without layers)
DeepestBoundary ==
    LET bottoms == {dpth * IncPerCm : dpth \in Range(swddata.idx)}
    IN IF bottoms = {} THEN 0 ELSE CHOOSE b \in bottoms : \A o \in bottoms : o <= b

\* the last call was compute_root_zone_sw on an object with a model and a
\* deficit table
RzCalled ==
    /\ call.op = "compute_root_zone_sw"
    /\ mdl.given
    /\ ~swddata.none

\* the dates of the deficit table that the model's output has and whose Zr
\* there, in increments, satisfies the test
DatesWithZr(Test(_)) ==
    {date \in Range(swddata.cols) \cap Range(mdl.odata.idx) :
        /\ IsNum(mdl.odata.val[date]["Zr"])
        /\ Test(ToInc(mdl.odata.val[date]["Zr"]))}

ZrBeyond(zr) == zr > DeepestBoundary
ZrWithin(zr) == zr <= DeepestBoundary

\* C6: compute_root_zone_sw raises IndexError from the layer lookup when the
\* Zr of a processed date lies beyond the bottom of the deepest layer, and
\* raises no IndexError when every such Zr lies within it, whatever Zrmax is
ClaimC6 ==
    RzCalled /\ Len(swddata.idx) > 0 /\ swddata.cols[1] \in Range(mdl.odata.idx)
    => /\ DatesWithZr(ZrBeyond) # {} => err = "IndexError"
       /\ DatesWithZr(ZrBeyond) = {} => err # "IndexError"

\* the lookups of the content table made for the first date of the deficit
\* table, down to the bottom of its deepest layer, find their cells
FirstDateReadable ==
    /\ swddata.cols[1] \in Range(mdl.odata.idx)
    /\ ~swcdata.none
    /\ swddata.cols[1] \in Range(swcdata.cols)
    /\ Range(swddata.idx) \subseteq Range(swcdata.idx)

\* C6, as the code has it: the layer lookup fails on the increments of the
\* maximum root depth, not of Zr.  compute_root_zone_sw raises IndexError
\* only when the last increment of the loop, int(Zrmax * 100000 + 1) - 1,
\* lies beyond the bottom of the deepest layer
\* and the deficit table has a date; it then always raises, and raises
\* IndexError when the first date is in the model's output and the content
\* table has its cells.  With Zrmax within the deepest layer no IndexError is
\* raised, wherever Zr lies
ThmC6 ==
    RzCalled =>
      LET beyond == LastInc(mdl.Zrmax) > DeepestBoundary /\ Len(swddata.cols) > 0
      IN /\ err = "IndexError" => beyond
         /\ beyond => err # "none"
         /\ beyond /\ FirstDateReadable => err = "IndexError"

\* IndexError is raised for a first date whose Zr lies within the deepest layer
WitC6 ==
    /\ RzCalled
    /\ err = "IndexError"
    /\ Len(swddata.idx) > 0
    /\ swddata.cols[1] \in DatesWithZr(ZrWithin)
    /\ LastInc(mdl.Zrmax) = DeepestBoundary + 1

\* no IndexError is raised although a processed date has its Zr beyond the
\* deepest layer
WitC6Deep ==
    /\ RzCalled
    /\ err = "none"
    /\ DatesWithZr(ZrBeyond) # {}
    /\ LastInc(mdl.Zrmax) = DeepestBoundary

\* C7: compute_swd_from_swc on an object without a model, whatever its content
\* table is (loaded, empty or None), prints a message, returns without raising
\* and leaves the three tables as they were
ClaimC7 ==
    [][(call'.op = "compute_swd_from_swc" /\ ~mdl.given)
          => /\ err' = "none"
             /\ out' # <<>>
             /\ tables' = tables]_vars

\* C8: compute_root_zone_sw while the deficit table is not populated, be it
\* None or the empty table of an object built without file paths and not
\* loaded since, prints a message, returns without raising and leaves rzdata
\* as it was
ClaimC8 ==
    [][(/\ call'.op = "compute_root_zone_sw"
        /\ \/ swddata.none
           \/ call.op = "init" /\ call.args = <<>>)
          => /\ err' = "none"
             /\ out' # <<>>
             /\ rzdata' = rzdata]_vars

\* the paths given to a loadfile or savefile call
GivenPaths(c) == {c.swc, c.swd, c.rzsw} \ {NoPath}

\* the call c is a loadfile or savefile of the one path p, whose state st
\* makes open() fail
OneUnopenablePath(c, p, st) ==
    /\ c.op \in {"loadfile", "savefile"}
    /\ GivenPaths(c) = {p}
    /\ st \in {"nodir", "denied", "isdir"} \/ (c.op = "loadfile" /\ st = "absent")

\* C9, as claimed: loadfile or savefile of a path that cannot be opened, for
\* whatever reason, prints a message and returns without raising, the three
\* tables unchanged
ClaimC9 ==
    [][\A p \in Paths :
         OneUnopenablePath(call', p, files[p].st)
           => /\ err' = "none"
              /\ out' # <<>>
              /\ tables' = tables]_vars

\* C9, amended: loadfile or savefile of a path that does not exist (no such
\* file to read, no such directory to write in) prints a message and returns
\* without raising; when open() fails for another reason (no permission, the
\* path is a directory) PermissionError or IsADirectoryError propagates to the
\* caller; in both cases the three tables and the files are unchanged
ThmC9 ==
    [][\A p \in Paths :
         OneUnopenablePath(call', p, files[p].st)
           => /\ tables' = tables
              /\ files' = files
              /\ IF files[p].st \in {"absent", "nodir"}
                 THEN err' = "none" /\ out' # <<>>
                 ELSE IF files[p].st = "denied" THEN err' = "PermissionError"
                 ELSE err' = "IsADirectoryError"]_vars

\* a loadfile of a path that does not exist has printed its message, and a
\* table is held that it left alone
WitC9 ==
    /\ call.op = "loadfile"
    /\ GivenPaths(call) = {"bad.vswc"}
    /\ err = "none"
    /\ out = <<"swc path not found">>
    /\ ~swcdata.none /\ Len(swcdata.idx) > 0

\* a cell as three decimals show it: the float that its text denotes
Cell3(x) == IF x.k = "str" THEN x ELSE ParseFloat(FmtFloat(x))

\* the table u has the keys, the columns and, to three decimals, the values
\* of the table t
SameTo3(t, u) ==
    /\ ~t.none /\ ~u.none
    /\ u.idx = t.idx
    /\ u.cols = t.cols
    /\ \A r \in Range(t.idx), c \in Range(t.cols) :
         Cell3(u.val[r][c]) = Cell3(t.val[r][c])

\* the call d is a loadfile of exactly the paths that the call c, a savefile
\* that returned, wrote
LoadsWhatWasSaved(c, e, d) ==
    /\ c.op = "savefile" /\ e = "none"
    /\ d.op = "loadfile"
    /\ GivenPaths(c) # {}
    /\ <<d.swc, d.swd, d.rzsw>> = <<c.swc, c.swd, c.rzsw>>
    /\ \A p \in GivenPaths(c) : files[p].st = "file"

\* C10: for each kind of table and every table the object can hold (an empty
\* one, one with NaN values, a root-zone table that was itself loaded),
\* savefile then loadfile of the same path gives a table with the same keys,
\* the same columns and the same values to three decimals
ClaimC10 ==
    [][LoadsWhatWasSaved(call, err, call')
          => /\ err' = "none"
             /\ call.swc # NoPath => SameTo3(swcdata, swcdata')
             /\ call.swd # NoPath => SameTo3(swddata, swddata')
             /\ call.rzsw # NoPath => SameTo3(rzdata, rzdata')]_vars

\* the kinds of file passed to the constructor
KindsPassed == {Extension(call.args[i]) : i \in 1..Len(call.args)}

\* the object was constructed with a model and with paths of accepted kinds
\* that are files, and every date of its deficit table is in the model's
\* output table
BuiltFromFiles ==
    /\ call.op = "init"
    /\ call.args # <<>>
    /\ \A i \in 1..Len(call.args) :
         call.args[i] \in GoodPaths /\ files[call.args[i]].st = "file"
    /\ mdl.given
    /\ ~swddata.none => Range(swddata.cols) \subseteq Range(mdl.odata.idx)

\* the tables the files hold
LoadedSwc == LoadLayered(files["a.vswc"].lines, NoneDF).df
LoadedSwd == LoadLayered(files["a.vswd"].lines, NoneDF).df
LoadedRz == LoadRz(files["a.rzsw"].lines).df

\* C11: construction from files derives exactly the tables that were not
\* loaded: from a vswc file alone the deficit and root-zone tables are
\* computed; from vswc and vswd files the deficit table is the loaded one and
\* the root-zone table is computed; for every other combination of kinds
\* construction returns without raising and every loaded table is kept
ClaimC11 ==
    BuiltFromFiles =>
      /\ err = "none"
      /\ "vswc" \in KindsPassed => swcdata = LoadedSwc
      /\ "vswd" \in KindsPassed => swddata = LoadedSwd
      /\ "rzsw" \in KindsPassed => rzdata = LoadedRz
      /\ KindsPassed = {"vswc"} => swddata = DerivedSWD(mdl, swcdata)
      /\ KindsPassed \in {{"vswc"}, {"vswc", "vswd"}}
           => /\ ~rzdata.none
              /\ rzdata = ComputeRootZoneSw(mdl, swcdata, swddata, NoneDF).rz

\* the pair is degenerate: meas is constant, or modeled is constant, or the
\* two lists are element-wise identical
Constant(listx) == \A i, j \in 1..Len(listx) : listx[i] = listx[j]
Degenerate ==
    \/ Constant(stats.meas)
    \/ Constant(stats.modeled)
    \/ stats.meas = stats.modeled

\* C12: Statistics(meas, modeled) returns (0, 0, 1, 1) to its caller for
\* every degenerate pair of equal-length lists, and takes the degenerate
\* branch for no other pair
ClaimC12 ==
    stats.pc = "done" =>
      /\ stats.branch = "degenerate" <=> Degenerate
      /\ Degenerate => /\ stats.err = "none"
                       /\ stats.ret = <<Num(0, 1), Num(0, 1), Num(1, 1), Num(1, 1)>>

Derivations == {"compute_swd_from_swc", "compute_root_zone_sw"}

\* a derivation call changes neither the content table nor the model, and
\* compute_root_zone_sw does not change the deficit table
DerivationReadsOnly ==
    call'.op \in Derivations
      => /\ swcdata' = swcdata
         /\ mdl' = mdl
         /\ call'.op = "compute_root_zone_sw" => swddata' = swddata

\* C13, as claimed: a derivation call changes neither the content table nor
\* the model, and after every derivation call the deficit table and the
\* root-zone table are what the first derivation of each made them
ClaimC13 ==
    [][/\ DerivationReadsOnly
       /\ (call'.op \in Derivations /\ first'.hasSwd) => swddata' = first'.swd
       /\ (call'.op \in Derivations /\ first'.hasRz) => rzdata' = first'.rz]_vars

\* C13, amended: a derivation call changes neither the content table nor the
\* model; after every derivation call the deficit table is what its first
\* derivation made it; the root-zone table is what its first derivation made
\* it provided the deficit table had been derived before it, or has not been
\* derived at all (a root-zone table computed from a loaded deficit table
\* changes when it is recomputed after compute_swd_from_swc replaced that
\* table)
ThmC13 ==
    [][/\ DerivationReadsOnly
       /\ (call'.op \in Derivations /\ first'.hasSwd) => swddata' = first'.swd
       /\ (call'.op \in Derivations /\ first'.hasRz
             /\ (first'.rzAfterSwd \/ ~first'.hasSwd)) => rzdata' = first'.rz]_vars

\* both tables were derived, the deficit table first, and a second
\* compute_root_zone_sw has left a root-zone table with rows as it was
WitC13 ==
    /\ call.op = "compute_root_zone_sw"
    /\ err = "none"
    /\ ncalls = MaxCalls
    /\ first.hasSwd /\ first.hasRz /\ first.rzAfterSwd
    /\ Len(rzdata.idx) > 0
    /\ rzdata = first.rz
    /\ swddata = first.swd

====
